---- MODULE Spec2Model ----
(***************************************************************************)
(* The /question path of poll_bot.py: PollBot.get_random_question_block    *)
(* (block parsing, random selection, question/spoiler split),              *)
(* PollBot.split_message_chunks (greedy line packing) and the              *)
(* question_command handler that sends the chunks.                         *)
(*                                                                         *)
(* A text is a sequence of one-character strings.  The literal markers of  *)
(* the source are scaled to short sequences over a small alphabet, keeping *)
(* their shape: the two author prefixes share a head and end in ":", the   *)
(* question prefix has no colon, the answer prefix ends in ":".  The       *)
(* length caps 10000 and 4000 are scaled to MaxBlockLen and DefaultMaxLen. *)
(* Whitespace is the space and the line break, the only line boundary.     *)
(* The handler's catch-all "except Exception" branch has no source of      *)
(* exceptions here and is left out.                                        *)
(***************************************************************************)
EXTENDS Integers, Sequences, FiniteSets, TLC

VARIABLES pc, file_exists, content, blocks, block, draws, error,
          question_text, spoiler_text, question_chunks, spoiler_chunks,
          sent, text, max_len, result

vars == <<pc, file_exists, content, blocks, block, draws, error,
          question_text, spoiler_text, question_chunks, spoiler_chunks,
          sent, text, max_len, result>>

-----------------------------------------------------------------------------
(* Bounds of the model *)

MaxLines == 3

MaxTextLen == 6

MaxM == 3

(* Scaled program constants *)

MaxBlockLen == 7

DefaultMaxLen == 3

-----------------------------------------------------------------------------
(* Characters *)

NL == "\n"

SP == " "

Whitespace == {SP, NL}

AuthorMarker == <<"a", ":">>

AuthorkaMarker == <<"a", "k", ":">>

QuestionMarker == <<"Q">>

AnswerMarker == <<"O", ":">>

-----------------------------------------------------------------------------
(* str primitives, as Python computes them *)

Min(a, b) == IF a < b THEN a ELSE b

\* s[a:b] with 0-based, end-exclusive, clamped indices
Slice(s, a, b) == SubSeq(s, a + 1, Min(b, Len(s)))

IsSpace(s) == \A i \in 1..Len(s) : s[i] \in Whitespace

RECURSIVE LStrip(_)
LStrip(s) ==
    IF s = <<>> THEN <<>>
    ELSE IF s[1] \in Whitespace THEN LStrip(Tail(s))
    ELSE s

RECURSIVE RStrip(_)
RStrip(s) ==
    IF s = <<>> THEN <<>>
    ELSE IF s[Len(s)] \in Whitespace THEN RStrip(SubSeq(s, 1, Len(s) - 1))
    ELSE s

Strip(s) == RStrip(LStrip(s))

LowerChar(c) == IF c = "A" THEN "a" ELSE IF c = "K" THEN "k" ELSE c

Lower(s) == [i \in 1..Len(s) |-> LowerChar(s[i])]

StartsWith(s, p) == Len(p) <= Len(s) /\ SubSeq(s, 1, Len(p)) = p

\* position of the first line break of s, 0 if there is none
FirstBreak(s) ==
    IF \E i \in 1..Len(s) : s[i] = NL
    THEN CHOOSE i \in 1..Len(s) : s[i] = NL /\ \A j \in 1..(i - 1) : s[j] # NL
    ELSE 0

\* s.splitlines(keepends=True): a final piece without a break is a line,
\* an empty final piece is not
RECURSIVE SplitLinesKeep(_)
SplitLinesKeep(s) ==
    IF s = <<>> THEN <<>>
    ELSE LET k == FirstBreak(s)
         IN IF k = 0 THEN <<s>>
            ELSE <<SubSeq(s, 1, k)>> \o SplitLinesKeep(SubSeq(s, k + 1, Len(s)))

DropBreak(line) ==
    IF line # <<>> /\ line[Len(line)] = NL
    THEN SubSeq(line, 1, Len(line) - 1)
    ELSE line

\* s.splitlines()
SplitLines(s) ==
    LET ls == SplitLinesKeep(s) IN [i \in 1..Len(ls) |-> DropBreak(ls[i])]

\* "".join(parts)
RECURSIVE Concat(_)
Concat(parts) ==
    IF parts = <<>> THEN <<>> ELSE Head(parts) \o Concat(Tail(parts))

\* "\n".join(lines)
RECURSIVE JoinLines(_)
JoinLines(lines) ==
    IF lines = <<>> THEN <<>>
    ELSE IF Len(lines) = 1 THEN lines[1]
    ELSE lines[1] \o <<NL>> \o JoinLines(Tail(lines))

\* range(start, stop, step)
RECURSIVE Range(_, _, _)
Range(start, stop, step) ==
    IF start >= stop THEN <<>>
    ELSE <<start>> \o Range(start + step, stop, step)

NonEmpty(chunk) == chunk # <<>>

-----------------------------------------------------------------------------
(* PollBot.split_message_chunks *)

\* the pieces left untrimmed
SlicePieces_untrimmed(line, M) ==
    LET starts == Range(0, Len(line), M)
    IN [j \in 1..Len(starts) |-> Slice(line, starts[j], starts[j] + M)]

\* the pieces of one oversized line, each trimmed
SlicePieces(line, M) ==
    LET starts == Range(0, Len(line), M)
    IN [j \in 1..Len(starts) |-> Strip(Slice(line, starts[j], starts[j] + M))]

\* the loop state before the first line
SegStart == [chunks |-> <<>>, current |-> <<>>, current_len |-> 0]

\* the buffer replaced without being flushed when the next line does not fit
SegLine_noflush(st, line, M) ==
    IF Len(line) > M
    THEN LET flushed == IF st.current # <<>>
                        THEN Append(st.chunks, Strip(Concat(st.current)))
                        ELSE st.chunks
         IN [chunks |-> flushed \o SlicePieces(line, M),
             current |-> <<>>,
             current_len |-> IF st.current # <<>> THEN 0 ELSE st.current_len]
    ELSE IF st.current_len + Len(line) > M
    THEN [chunks |-> st.chunks,
          current |-> <<line>>,
          current_len |-> Len(line)]
    ELSE [chunks |-> st.chunks,
          current |-> Append(st.current, line),
          current_len |-> st.current_len + Len(line)]

\* one iteration of the loop over the lines
SegLine(st, line, M) ==
    IF Len(line) > M
    THEN LET flushed == IF st.current # <<>>
                        THEN Append(st.chunks, Strip(Concat(st.current)))
                        ELSE st.chunks
         IN [chunks |-> flushed \o SlicePieces(line, M),
             current |-> <<>>,
             current_len |-> IF st.current # <<>> THEN 0 ELSE st.current_len]
    ELSE IF st.current_len + Len(line) > M
    THEN [chunks |-> Append(st.chunks, Strip(Concat(st.current))),
          current |-> <<line>>,
          current_len |-> Len(line)]
    ELSE [chunks |-> st.chunks,
          current |-> Append(st.current, line),
          current_len |-> st.current_len + Len(line)]

RECURSIVE SegLoop(_, _, _)
SegLoop(st, lines, M) ==
    IF lines = <<>> THEN st
    ELSE SegLoop(SegLine(st, Head(lines), M), Tail(lines), M)

\* the flush after the loop and the filter of the return statement
SegFinish(st) ==
    LET chunks == IF st.current # <<>>
                  THEN Append(st.chunks, Strip(Concat(st.current)))
                  ELSE st.chunks
    IN SelectSeq(chunks, NonEmpty)

split_message_chunks(t, M) ==
    IF Len(t) <= M THEN <<t>>
    ELSE SegFinish(SegLoop(SegStart, SplitLinesKeep(t), M))

-----------------------------------------------------------------------------
(* Inputs *)

SegAlphabet == {"x", SP, NL}

RECURSIVE TextsOfLen(_)
TextsOfLen(n) ==
    IF n = 0 THEN {<<>>}
    ELSE {Append(t, c) : t \in TextsOfLen(n - 1), c \in SegAlphabet}

Texts == UNION {TextsOfLen(n) : n \in 0..MaxTextLen}

-----------------------------------------------------------------------------
(* The segmenter applied to every bounded text and limit *)

InitSeg ==
    /\ pc = "seg"
    /\ text \in Texts
    /\ max_len \in 1..MaxM
    /\ result = <<>>
    /\ file_exists = TRUE
    /\ content = <<>>
    /\ blocks = <<>>
    /\ block = <<>>
    /\ draws = 0
    /\ error = "none"
    /\ question_text = <<>>
    /\ spoiler_text = <<>>
    /\ question_chunks = <<>>
    /\ spoiler_chunks = <<>>
    /\ sent = <<>>

Segment ==
    /\ pc = "seg"
    /\ result' = split_message_chunks(text, max_len)
    /\ pc' = "seg_done"
    /\ UNCHANGED <<file_exists, content, blocks, block, draws, error,
                   question_text, spoiler_text, question_chunks,
                   spoiler_chunks, sent, text, max_len>>

NextSeg == Segment

SpecSeg == InitSeg /\ [][NextSeg]_vars

-----------------------------------------------------------------------------
(* PollBot.get_random_question_block: block parsing *)

\* the test that closes a block
IsAuthorLine(line) ==
    \/ StartsWith(Lower(line), AuthorMarker)
    \/ StartsWith(Lower(line), AuthorkaMarker)

\* the loop state before the first line
ParseStart == [blocks |-> <<>>, current |-> <<>>]

\* the buffer kept after a block is closed
ParseLine_keepcurrent(st, line) ==
    LET cur == Append(st.current, line)
        blk == Strip(JoinLines(cur))
    IN IF IsAuthorLine(line)
       THEN [blocks |-> IF blk # <<>> THEN Append(st.blocks, blk) ELSE st.blocks,
             current |-> cur]
       ELSE [blocks |-> st.blocks, current |-> cur]

\* one iteration of the loop over content.splitlines()
ParseLine(st, line) ==
    LET cur == Append(st.current, line)
        blk == Strip(JoinLines(cur))
    IN IF IsAuthorLine(line)
       THEN [blocks |-> IF blk # <<>> THEN Append(st.blocks, blk) ELSE st.blocks,
             current |-> <<>>]
       ELSE [blocks |-> st.blocks, current |-> cur]

RECURSIVE ParseLoop(_, _)
ParseLoop(st, lines) ==
    IF lines = <<>> THEN st
    ELSE ParseLoop(ParseLine(st, Head(lines)), Tail(lines))

\* the trailing buffer forgotten
ParseBlocks_notrailing(c) == ParseLoop(ParseStart, SplitLines(c)).blocks

\* the block list built from the file content
ParseBlocks(c) ==
    LET st == ParseLoop(ParseStart, SplitLines(c))
        trailing == Strip(JoinLines(st.current))
    IN IF trailing # <<>> THEN Append(st.blocks, trailing) ELSE st.blocks

\* the size test on the drawn block, off by one
TooLong_inclusive(b) == Len(b) >= MaxBlockLen

\* the size test on the drawn block
TooLong(b) == Len(b) > MaxBlockLen

-----------------------------------------------------------------------------
(* PollBot.get_random_question_block: question / spoiler split *)

IsQuestionLine(line) == StartsWith(Strip(line), QuestionMarker)

IsAnswerLine(line) == StartsWith(Strip(line), AnswerMarker)

\* the first of the indices where the scan's test passes, 0 for None
FirstLine(hits) ==
    IF hits = {} THEN 0 ELSE CHOOSE i \in hits : \A j \in hits : i <= j

QuestionHits(lines) == {i \in 1..Len(lines) : IsQuestionLine(lines[i])}

AnswerHits(lines) == {i \in 1..Len(lines) : IsAnswerLine(lines[i])}

\* the answer line left in the visible part
SplitBlock_answervisible(b) ==
    LET all_lines == SplitLines(b)
        question_start == FirstLine(QuestionHits(all_lines))
        block_lines == IF question_start # 0
                       THEN SubSeq(all_lines, question_start, Len(all_lines))
                       ELSE all_lines
        spoiler_index == FirstLine(AnswerHits(block_lines))
    IN IF spoiler_index = 0
       THEN [question_text |-> Strip(JoinLines(block_lines)),
             spoiler_text |-> <<>>]
       ELSE [question_text |->
                Strip(JoinLines(SubSeq(block_lines, 1, spoiler_index))),
             spoiler_text |->
                Strip(JoinLines(SubSeq(block_lines, spoiler_index + 1,
                                       Len(block_lines))))]

\* the pair returned for a block
SplitBlock(b) ==
    LET all_lines == SplitLines(b)
        question_start == FirstLine(QuestionHits(all_lines))
        block_lines == IF question_start # 0
                       THEN SubSeq(all_lines, question_start, Len(all_lines))
                       ELSE all_lines
        spoiler_index == FirstLine(AnswerHits(block_lines))
    IN IF spoiler_index = 0
       THEN [question_text |-> Strip(JoinLines(block_lines)),
             spoiler_text |-> <<>>]
       ELSE [question_text |->
                Strip(JoinLines(SubSeq(block_lines, 1, spoiler_index - 1))),
             spoiler_text |->
                Strip(JoinLines(SubSeq(block_lines, spoiler_index,
                                       Len(block_lines))))]

-----------------------------------------------------------------------------
(* Outbound messages *)

\* html.escape of one character
EscapeChar(c) ==
    IF c = "&" THEN <<"&", "a", "m", "p", ";">>
    ELSE IF c = "<" THEN <<"&", "l", "t", ";">>
    ELSE IF c = ">" THEN <<"&", "g", "t", ";">>
    ELSE IF c = "\"" THEN <<"&", "q", "u", "o", "t", ";">>
    ELSE IF c = "'" THEN <<"&", "#", "x", "2", "7", ";">>
    ELSE <<c>>

escape_html(t) == Concat([i \in 1..Len(t) |-> EscapeChar(t[i])])

SpoilerOpen == "<span class=\"tg-spoiler\">"

SpoilerClose == "</span>"

QuestionPayload(chunk) == escape_html(chunk)

\* the spoiler sent without its markup
SpoilerPayload_plain(chunk) == escape_html(chunk)

SpoilerPayload(chunk) == <<SpoilerOpen>> \o escape_html(chunk) \o <<SpoilerClose>>

NotFoundText == <<"File random_pack.txt not found.">>

NoBlocksText == <<"No question blocks found in random_pack.txt.">>

TooLongText == <<"Selected block is too long (over 10000 characters).">>

Plain(payload) == [payload |-> payload, parse_mode |-> "none"]

Html(payload) == [payload |-> payload, parse_mode |-> "HTML"]

-----------------------------------------------------------------------------
(* Corpora: up to MaxLines lines joined by line breaks *)

CorpusLines ==
    { <<>>, <<SP>>, <<"x">>,
      <<"a", ":">>, <<"A", ":", SP>>, <<SP, "a", ":">>, <<"A", "k", ":", "x">>,
      <<"Q", "x">>, <<SP, "Q">>,
      <<"O", ":">>, <<SP, "O", ":", "&">> }

RECURSIVE LineLists(_)
LineLists(n) ==
    IF n = 0 THEN {<<>>}
    ELSE {Append(ls, l) : ls \in LineLists(n - 1), l \in CorpusLines}

Corpora == {JoinLines(ls) : ls \in UNION {LineLists(n) : n \in 0..MaxLines}}

-----------------------------------------------------------------------------
(* question_command *)

Init ==
    /\ pc = "start"
    /\ file_exists \in BOOLEAN
    /\ content \in (IF file_exists THEN Corpora ELSE {<<>>})
    /\ blocks = <<>>
    /\ block = <<>>
    /\ draws = 0
    /\ error = "none"
    /\ question_text = <<>>
    /\ spoiler_text = <<>>
    /\ question_chunks = <<>>
    /\ spoiler_chunks = <<>>
    /\ sent = <<>>
    /\ text = <<>>
    /\ max_len = DefaultMaxLen
    /\ result = <<>>

\* open() fails; the handler answers and returns
FileMissing ==
    /\ pc = "start"
    /\ ~file_exists
    /\ error' = "FileNotFound"
    /\ sent' = Append(sent, Plain(NotFoundText))
    /\ pc' = "done"
    /\ UNCHANGED <<file_exists, content, blocks, block, draws, question_text,
                   spoiler_text, question_chunks, spoiler_chunks, text,
                   max_len, result>>

\* the file is read and cut into blocks
ParseCorpus ==
    /\ pc = "start"
    /\ file_exists
    /\ blocks' = ParseBlocks(content)
    /\ pc' = "parsed"
    /\ UNCHANGED <<file_exists, content, block, draws, error, question_text,
                   spoiler_text, question_chunks, spoiler_chunks, sent, text,
                   max_len, result>>

\* no block: ValueError, the handler answers and returns
NoBlocks ==
    /\ pc = "parsed"
    /\ blocks = <<>>
    /\ error' = "EmptyCorpus"
    /\ sent' = Append(sent, Plain(NoBlocksText))
    /\ pc' = "done"
    /\ UNCHANGED <<file_exists, content, blocks, block, draws, question_text,
                   spoiler_text, question_chunks, spoiler_chunks, text,
                   max_len, result>>

\* random.choice(blocks)
DrawBlock ==
    /\ pc = "parsed"
    /\ blocks # <<>>
    /\ \E i \in 1..Len(blocks) : block' = blocks[i]
    /\ draws' = draws + 1
    /\ pc' = "drawn"
    /\ UNCHANGED <<file_exists, content, blocks, error, question_text,
                   spoiler_text, question_chunks, spoiler_chunks, sent, text,
                   max_len, result>>

\* the drawn block is over the cap: ValueError, the handler answers and returns
BlockTooLong ==
    /\ pc = "drawn"
    /\ TooLong(block)
    /\ error' = "BlockTooLarge"
    /\ sent' = Append(sent, Plain(TooLongText))
    /\ pc' = "done"
    /\ UNCHANGED <<file_exists, content, blocks, block, draws, question_text,
                   spoiler_text, question_chunks, spoiler_chunks, text,
                   max_len, result>>

\* the drawn block is split and the pair returned to the handler
SplitQuestion ==
    /\ pc = "drawn"
    /\ ~TooLong(block)
    /\ question_text' = SplitBlock(block).question_text
    /\ spoiler_text' = SplitBlock(block).spoiler_text
    /\ pc' = "split"
    /\ UNCHANGED <<file_exists, content, blocks, block, draws, error,
                   question_chunks, spoiler_chunks, sent, text, max_len,
                   result>>

\* the chunk lists of the branch taken
ChunkTexts ==
    /\ pc = "split"
    /\ question_chunks' = split_message_chunks(question_text, max_len)
    /\ spoiler_chunks' = IF spoiler_text # <<>>
                         THEN split_message_chunks(spoiler_text, max_len)
                         ELSE <<>>
    /\ pc' = "send"
    /\ UNCHANGED <<file_exists, content, blocks, block, draws, error,
                   question_text, spoiler_text, sent, text, max_len, result>>

\* one message.answer of the loop over question_chunks
SendQuestionChunk ==
    /\ pc = "send"
    /\ Len(sent) < Len(question_chunks)
    /\ sent' = Append(sent, Html(QuestionPayload(question_chunks[Len(sent) + 1])))
    /\ UNCHANGED <<pc, file_exists, content, blocks, block, draws, error,
                   question_text, spoiler_text, question_chunks,
                   spoiler_chunks, text, max_len, result>>

\* one message.answer of the loop over spoiler_chunks
SendSpoilerChunk ==
    /\ pc = "send"
    /\ Len(sent) >= Len(question_chunks)
    /\ Len(sent) < Len(question_chunks) + Len(spoiler_chunks)
    /\ sent' = Append(sent,
          Html(SpoilerPayload(spoiler_chunks[Len(sent) - Len(question_chunks) + 1])))
    /\ UNCHANGED <<pc, file_exists, content, blocks, block, draws, error,
                   question_text, spoiler_text, question_chunks,
                   spoiler_chunks, text, max_len, result>>

\* the handler returns
Finish ==
    /\ pc = "send"
    /\ Len(sent) = Len(question_chunks) + Len(spoiler_chunks)
    /\ pc' = "done"
    /\ UNCHANGED <<file_exists, content, blocks, block, draws, error,
                   question_text, spoiler_text, question_chunks,
                   spoiler_chunks, sent, text, max_len, result>>

Next ==
    \/ FileMissing
    \/ ParseCorpus
    \/ NoBlocks
    \/ DrawBlock
    \/ BlockTooLong
    \/ SplitQuestion
    \/ ChunkTexts
    \/ SendQuestionChunk
    \/ SendSpoilerChunk
    \/ Finish

Spec == Init /\ [][Next]_vars

-----------------------------------------------------------------------------
(* Properties of split_message_chunks *)

CeilDiv(a, b) == (a + b - 1) \div b

\* the chunks cs occur in t as disjoint pieces, in list order
RECURSIVE InSourceOrder(_, _)
InSourceOrder(t, cs) ==
    \/ cs = <<>>
    \/ \E k \in 0..(Len(t) - Len(cs[1])) :
          /\ SubSeq(t, k + 1, k + Len(cs[1])) = cs[1]
          /\ InSourceOrder(SubSeq(t, k + Len(cs[1]) + 1, Len(t)), Tail(cs))

\* t is the chunks cs in list order with only whitespace put before,
\* between and after them
RECURSIVE Recoverable(_, _)
Recoverable(t, cs) ==
    IF cs = <<>> THEN IsSpace(t)
    ELSE \E k \in 0..(Len(t) - Len(cs[1])) :
            /\ IsSpace(SubSeq(t, 1, k))
            /\ SubSeq(t, k + 1, k + Len(cs[1])) = cs[1]
            /\ Recoverable(SubSeq(t, k + Len(cs[1]) + 1, Len(t)), Tail(cs))

Contains(s, p) ==
    \E k \in 0..(Len(s) - Len(p)) : SubSeq(s, k + 1, k + Len(p)) = p

\* the j-th piece of M characters of a line, by position
PieceAt(line, M, j) == SubSeq(line, (j - 1) * M + 1, Min(j * M, Len(line)))

\* the trimmed pieces of a line that keep a character, in order
KeptPieces(line, M) ==
    LET all == [j \in 1..CeilDiv(Len(line), M) |-> Strip(PieceAt(line, M, j))]
    IN SelectSeq(all, NonEmpty)

BlankPieceCount(line, M) ==
    Cardinality({j \in 1..CeilDiv(Len(line), M) : IsSpace(PieceAt(line, M, j))})

\* the run r occurs in the list cs as consecutive elements
HasRun(cs, r) ==
    \E k \in 0..(Len(cs) - Len(r)) : SubSeq(cs, k + 1, k + Len(r)) = r

OversizedLines(t, M) ==
    {i \in 1..Len(SplitLinesKeep(t)) : Len(SplitLinesKeep(t)[i]) > M}

\* C1: every returned chunk has length <= M, no chunk is the empty string
\* and the chunks appear in source order, for every text including the
\* empty one and those of the fast path.
C1_ChunksBoundedNonEmptyOrdered ==
    pc = "seg_done" =>
        /\ \A i \in 1..Len(result) :
              Len(result[i]) <= max_len /\ result[i] # <<>>
        /\ InSourceOrder(text, result)

\* C4 as stated: a single line of length L > M yields exactly ceil(L / M)
\* chunks.
C4_ExactlyCeilChunks ==
    (pc = "seg_done" /\ Len(SplitLinesKeep(text)) = 1 /\ Len(text) > max_len)
        => Len(result) = CeilDiv(Len(text), max_len)

\* C4 amended: a line of length L > M is cut into ceil(L / M) pieces and
\* contributes the trimmed pieces that keep a character, consecutively and in
\* order; for a text that is one such line the chunk count is ceil(L / M)
\* minus the number of whitespace-only pieces.
C4_CeilMinusBlankPieces ==
    pc = "seg_done" =>
        /\ \A i \in OversizedLines(text, max_len) :
              HasRun(result, KeptPieces(SplitLinesKeep(text)[i], max_len))
        /\ (Len(SplitLinesKeep(text)) = 1 /\ Len(text) > max_len)
              => /\ result = KeptPieces(text, max_len)
                 /\ Len(result) = CeilDiv(Len(text), max_len)
                                    - BlankPieceCount(text, max_len)

\* an oversized line with a whitespace-only piece and with kept pieces
C4_Witness ==
    /\ pc = "seg_done"
    /\ Len(SplitLinesKeep(text)) = 1
    /\ Len(text) > max_len
    /\ BlankPieceCount(text, max_len) > 0
    /\ Len(result) >= 2

\* C8: the chunks in order give back the text once whitespace is put back at
\* the chunk boundaries and the two ends, and a line whose own length is
\* within M lies whole in one chunk.
C8_RecoverableModuloTrim ==
    pc = "seg_done" =>
        /\ Recoverable(text, result)
        /\ \A i \in 1..Len(SplitLinesKeep(text)) :
              LET line == SplitLinesKeep(text)[i]
              IN (Len(line) <= max_len /\ ~IsSpace(line))
                    => \E j \in 1..Len(result) :
                          Contains(result[j], Strip(line))

\* several chunks, whitespace trimmed away, an oversized and a short line
C8_Witness ==
    /\ pc = "seg_done"
    /\ Len(result) >= 3
    /\ Len(Concat(result)) < Len(text)
    /\ OversizedLines(text, max_len) # {}
    /\ \E i \in 1..Len(SplitLinesKeep(text)) :
          /\ Len(SplitLinesKeep(text)[i]) <= max_len
          /\ ~IsSpace(SplitLinesKeep(text)[i])

-----------------------------------------------------------------------------
(* Properties of block parsing *)

Parsed == pc # "start" /\ file_exists

ContentLines == SplitLines(content)

\* the lines the parser recognises as author markers
RecognisedMarkers == {i \in 1..Len(ContentLines) : IsAuthorLine(ContentLines[i])}

\* a marker line by the glossary: trimmed and case-normalised, it starts with
\* an author prefix
IsMarkerLine(line) ==
    \/ StartsWith(Lower(Strip(line)), AuthorMarker)
    \/ StartsWith(Lower(Strip(line)), AuthorkaMarker)

MarkerLines == {i \in 1..Len(ContentLines) : IsMarkerLine(ContentLines[i])}

MaxOf(S) == IF S = {} THEN 0 ELSE CHOOSE m \in S : \A n \in S : n <= m

MinOf(S) == CHOOSE m \in S : \A n \in S : m <= n

\* the lines after the last recognised marker
TrailingLines ==
    SubSeq(ContentLines, MaxOf(RecognisedMarkers) + 1, Len(ContentLines))

\* C2 as stated: a non-empty corpus with k marker lines gives k blocks when
\* it ends at a marker line, k + 1 when lines follow the last marker line, and
\* 1 when it has no marker line.
C2_BlockCountByMarkers ==
    (Parsed /\ content # <<>>) =>
        LET k == Cardinality(RecognisedMarkers)
        IN IF k = 0 THEN Len(blocks) = 1
           ELSE IF TrailingLines = <<>> THEN Len(blocks) = k
           ELSE Len(blocks) = k + 1

\* C2 amended: with k recognised marker lines the parser builds k blocks,
\* plus one exactly when a non-whitespace character follows the last marker
\* line (or occurs anywhere, when there is no marker line).
C2_BlockCountByContent ==
    Parsed =>
        Len(blocks) = Cardinality(RecognisedMarkers)
                        + (IF IsSpace(JoinLines(TrailingLines)) THEN 0 ELSE 1)

\* two marker lines followed by whitespace-only lines
C2_Witness ==
    /\ pc = "parsed"
    /\ Cardinality(RecognisedMarkers) = 2
    /\ TrailingLines # <<>>
    /\ IsSpace(JoinLines(TrailingLines))
    /\ Len(blocks) = 2

\* C3: the blocks in list order hold every corpus line once and in order, only
\* whitespace at block ends being dropped, and a block that contains a marker
\* line ends with that line.
C3_BlocksPartitionCorpus ==
    Parsed =>
        /\ Recoverable(content, blocks)
        /\ \A b \in 1..Len(blocks) :
              \A i \in 1..Len(SplitLines(blocks[b])) :
                 IsMarkerLine(SplitLines(blocks[b])[i])
                    => i = Len(SplitLines(blocks[b]))

\* C6: an empty or whitespace-only corpus gives no block and fails with
\* EmptyCorpus before any draw; a corpus with a non-whitespace character gives
\* a block and never fails with EmptyCorpus.
C6_EmptyCorpusIffBlank ==
    /\ (Parsed /\ IsSpace(content)) =>
          /\ blocks = <<>>
          /\ draws = 0
          /\ pc \in {"parsed", "done"}
          /\ pc = "done" => (error = "EmptyCorpus" /\ sent = <<Plain(NoBlocksText)>>)
    /\ (Parsed /\ ~IsSpace(content)) => (blocks # <<>> /\ error # "EmptyCorpus")

\* a corpus of whitespace only, failed
C6_Witness ==
    /\ pc = "done"
    /\ content # <<>>
    /\ IsSpace(content)
    /\ error = "EmptyCorpus"

\* C9: every line that, trimmed and case-normalised, starts with an author
\* prefix closes the block that runs from the line after the previous such
\* line up to and including it.
C9_TrimmedMarkerClosesBlock ==
    Parsed =>
        \A i \in MarkerLines :
           LET prev == MaxOf({j \in MarkerLines : j < i})
           IN \E b \in 1..Len(blocks) :
                 blocks[b] = Strip(JoinLines(SubSeq(ContentLines, prev + 1, i)))

-----------------------------------------------------------------------------
(* Properties of selection and split *)

\* C7: a drawn block over the cap fails with BlockTooLarge after one draw,
\* with one failure message and no chunk sent; a drawn block within the cap
\* never raises BlockTooLarge.
C7_TooLargeFailsFast ==
    /\ draws <= 1
    /\ error = "BlockTooLarge" =>
          /\ draws = 1
          /\ Len(block) > MaxBlockLen
          /\ pc = "done"
          /\ sent = <<Plain(TooLongText)>>
    /\ (pc = "done" /\ draws = 1 /\ Len(block) > MaxBlockLen)
          => error = "BlockTooLarge"
    /\ (draws = 1 /\ Len(block) <= MaxBlockLen) => error # "BlockTooLarge"

\* an oversized block drawn while another block is within the cap
C7_Witness ==
    /\ pc = "done"
    /\ error = "BlockTooLarge"
    /\ \E i \in 1..Len(blocks) : Len(blocks[i]) <= MaxBlockLen

SplitDone == pc \in {"split", "send"} \/ (pc = "done" /\ error = "none")

\* the lines of the drawn block from its first question line on
RemainingLines ==
    LET all_lines == SplitLines(block)
        qs == {i \in 1..Len(all_lines) :
                  StartsWith(Strip(all_lines[i]), QuestionMarker)}
    IN IF qs = {} THEN all_lines
       ELSE SubSeq(all_lines, MinOf(qs), Len(all_lines))

AnswerLines ==
    {i \in 1..Len(RemainingLines) :
        StartsWith(Strip(RemainingLines[i]), AnswerMarker)}

\* C5: after the lines before the first question line are dropped, the
\* question is the trimmed text before the first answer line and the spoiler
\* the trimmed text from that line on; without an answer line the question is
\* the whole trimmed remainder and the spoiler is empty.
C5_SplitAtMarkers ==
    SplitDone =>
        /\ IF AnswerLines = {}
           THEN /\ question_text = Strip(JoinLines(RemainingLines))
                /\ spoiler_text = <<>>
           ELSE /\ question_text = Strip(JoinLines(
                      SubSeq(RemainingLines, 1, MinOf(AnswerLines) - 1)))
                /\ spoiler_text = Strip(JoinLines(
                      SubSeq(RemainingLines, MinOf(AnswerLines),
                             Len(RemainingLines))))
        /\ (spoiler_text # <<>>) <=> (AnswerLines # {})

\* a block with a preamble, a question and an answer
C5_Witness ==
    /\ pc = "split"
    /\ Len(RemainingLines) < Len(SplitLines(block))
    /\ AnswerLines # {}
    /\ question_text # <<>>
    /\ spoiler_text # <<>>

-----------------------------------------------------------------------------
(* Properties of the outbound messages *)

ExpectedMessages ==
    [i \in 1..Len(question_chunks) |-> Html(escape_html(question_chunks[i]))]
    \o [j \in 1..Len(spoiler_chunks) |->
          Html(<<SpoilerOpen>> \o escape_html(spoiler_chunks[j])
                  \o <<SpoilerClose>>)]

IsWrapped(m) == m.payload # <<>> /\ Head(m.payload) = SpoilerOpen

\* C10: the messages of a successful request are the question chunks and
\* then the spoiler chunks, one per message in list order, only the spoiler
\* chunks wrapped in the spoiler markup, and none of them when the spoiler
\* text is empty.
C10_ChunksSentInOrder ==
    (pc \in {"send", "done"} /\ error = "none") =>
        /\ Len(sent) <= Len(ExpectedMessages)
        /\ sent = SubSeq(ExpectedMessages, 1, Len(sent))
        /\ pc = "done" => sent = ExpectedMessages
        /\ \A k \in 1..Len(sent) :
              IsWrapped(sent[k]) <=> k > Len(question_chunks)
        /\ spoiler_text = <<>> => \A k \in 1..Len(sent) : ~IsWrapped(sent[k])

\* a finished request with several question chunks and a spoiler
C10_Witness ==
    /\ pc = "done"
    /\ error = "none"
    /\ Len(question_chunks) >= 2
    /\ Len(spoiler_chunks) >= 1
    /\ Len(sent) = Len(question_chunks) + Len(spoiler_chunks)

====
